---- MODULE Spec2Model ----
(***************************************************************************)
(* Lazy translation-group loading of lingua-react.                         *)
(*                                                                         *)
(* LinguaProvider (src/src/lazyLoading.ts, lines 340-551) owns the merged  *)
(* translation table, the loaded and loading group sets (React state) and  *)
(* the pending-request map (a ref).  loadGroups is a useCallback over      *)
(* [loadedGroups, loadingGroups]: a call filters the requested names       *)
(* against the sets of the render that created the closure it was called   *)
(* through, while the pending map and the functional state updates act on  *)
(* the current values.  The model keeps both: the state cells and the      *)
(* context value of the last committed render.  A caller that still holds  *)
(* the closure of an earlier render is the same as a caller acting before  *)
(* the provider has re-rendered, so Render is an action of its own.        *)
(*                                                                         *)
(* useLazyTranslations (src/src/useLazyTranslations.ts) is one mounted     *)
(* consumer; its effects run in the commit of a render, before the         *)
(* provider's own effects (children's effects run first).                  *)
(*                                                                         *)
(* The exported fetch client (fetchTranslationGroups) and the translate    *)
(* function __ keep no state of the provider; each has a specification of  *)
(* its own next to an idle provider (SpecClient, SpecTranslate).           *)
(***************************************************************************)
EXTENDS Integers, Sequences, FiniteSets, TLC

\* ---------------------------------------------------------------- bounds
Groups == {"a", "b"}
Locales == {"en", "fr"}
MaxFetches == 3
MaxCalls == 3
MaxVisits == 1
MaxRequests == 2
MaxKeyLen == 3
MaxLeafLen == 3
MaxSelects == 2
MaxSettlingCalls == 2

VARIABLES
    lingua,               \* page props: [locale, translations]
    initialLoadedGroups,  \* provider prop: [supplied, groups]
    previousLocaleRef,    \* provider ref
    mergedTranslations,   \* provider state: the table
    loadedGroups,         \* provider state
    loadingGroups,        \* provider state
    pendingRequestsRef,   \* provider ref: group name -> promise (fetch index)
    contextValue,         \* what the last committed render handed to consumers
    stale,                \* state cells changed since the last committed render
    fetches,              \* promise -> request of fetchTranslationGroups: the ones
                          \* in flight, awaited, or settled by the last step
    calls,                \* the loadGroups calls whose promise is pending or was
                          \* settled by the last step
    nfetches,             \* number of requests issued so far
    ncalls,               \* number of loadGroups calls made so far
    lastCall,             \* the call made by the last step, if it was a single call
    epoch,                \* number of locale-change reactions so far
    visits,               \* number of page visits so far
    hook,                 \* the useLazyTranslations consumer: [present, groups, eager, ...]
    client,               \* a direct caller of the fetch client: [sent, outcome, ...]
    translation,          \* a caller of the translate function: [table, key, ...]
    document,             \* the page the client runs in: [defined, metas, jar]
    switcher              \* a LocaleSwitcher: [present, endpoint, isOpen, posts, ...]

vars == <<lingua, initialLoadedGroups, previousLocaleRef, mergedTranslations,
          loadedGroups, loadingGroups, pendingRequestsRef, contextValue, stale,
          fetches, calls, nfetches, ncalls, lastCall, epoch, visits, hook,
          client, translation, document, switcher>>

NoPromise == 0
EmptyMap == [g \in {} |-> NoPromise]

Range(s) == {s[i] : i \in DOMAIN s}

\* ------------------------------------------------------------ page props
\* A group's table as delivered in the page props / by the server, for a locale.
PropsEntry(l) == ("title" :> l)
FetchedEntry(l) == ("body" :> l)

PropsDomains == {{}, {"a"}}
PropsTable(l, D) == [g \in D |-> PropsEntry(l)]
LinguaProps == {[locale |-> l, translations |-> PropsTable(l, D)] :
                    l \in Locales, D \in PropsDomains}

extractGroupNames(translations) == DOMAIN translations

\* an initialiser that takes an empty list for a missing prop
InitialLoadedEmptyIsAbsent(ilg, initialTranslations) ==
    IF ilg.supplied /\ ilg.groups # {} THEN ilg.groups
    ELSE extractGroupNames(initialTranslations)

\* lines 364-370 and 392-394
InitialLoaded(ilg, initialTranslations) ==
    IF ilg.supplied THEN ilg.groups ELSE extractGroupNames(initialTranslations)

\* --------------------------------------------------------- the store state
\* The cells an operation may change, as one record, so that the effects of
\* one commit can be applied one after the other.
\* Settled promises nobody waits for any more are forgotten.
LiveCalls == {c \in calls : c.status = "pending"}

LiveFetches ==
    LET live == {p \in DOMAIN fetches :
                    \/ fetches[p].status = "inflight"
                    \/ \E c \in LiveCalls : p \in c.awaits}
    IN [p \in live |-> fetches[p]]

Store ==
    [mergedTranslations |-> mergedTranslations,
     loadedGroups |-> loadedGroups,
     loadingGroups |-> loadingGroups,
     pendingRequestsRef |-> pendingRequestsRef,
     previousLocaleRef |-> previousLocaleRef,
     stale |-> stale,
     fetches |-> LiveFetches,
     calls |-> LiveCalls,
     nfetches |-> nfetches,
     ncalls |-> ncalls,
     lastCall |-> 0,
     epoch |-> epoch,
     hook |-> hook]

Commit(s) ==
    /\ mergedTranslations' = s.mergedTranslations
    /\ loadedGroups' = s.loadedGroups
    /\ loadingGroups' = s.loadingGroups
    /\ pendingRequestsRef' = s.pendingRequestsRef
    /\ previousLocaleRef' = s.previousLocaleRef
    /\ stale' = s.stale
    /\ fetches' = s.fetches
    /\ calls' = s.calls
    /\ nfetches' = s.nfetches
    /\ ncalls' = s.ncalls
    /\ lastCall' = s.lastCall
    /\ epoch' = s.epoch
    /\ hook' = s.hook
    /\ UNCHANGED <<client, translation, document, switcher>>

\* ------------------------------------------------------------- loadGroups
\* a filter that lets the loading names through
GroupsToLoadKeepsLoading(groups, view) ==
    SelectSeq(groups, LAMBDA g : g \notin view.loadedGroups)

\* line 423-425: the closure's loadedGroups / loadingGroups
GroupsToLoad(groups, view) ==
    SelectSeq(groups, LAMBDA g : g \notin view.loadedGroups /\ g \notin view.loadingGroups)

\* a loadGroups that does not consult the pending map
NewGroupsToLoadNoDedup(groupsToLoad, pending) == groupsToLoad

\* a loadGroups that keeps the first occurrence of each name only
NewGroupsToLoadDistinct(groupsToLoad, pending) ==
    LET first(i) == \A j \in 1..(i - 1) : groupsToLoad[j] # groupsToLoad[i]
        kept == {i \in DOMAIN groupsToLoad : first(i) /\ groupsToLoad[i] \notin DOMAIN pending}
        nth[n \in 0..Len(groupsToLoad)] ==
            IF n = 0 THEN <<>>
            ELSE IF n \in kept THEN Append(nth[n - 1], groupsToLoad[n]) ELSE nth[n - 1]
    IN nth[Len(groupsToLoad)]

\* lines 432-442
NewGroupsToLoad(groupsToLoad, pending) ==
    SelectSeq(groupsToLoad, LAMBDA g : g \notin DOMAIN pending)

\* a loop that stops at the first name that has a pending entry
ExistingPromisesFirstOnly(groupsToLoad, pending) ==
    LET found == {i \in DOMAIN groupsToLoad : groupsToLoad[i] \in DOMAIN pending}
    IN IF found = {} THEN {}
       ELSE {pending[groupsToLoad[CHOOSE i \in found : \A j \in found : i <= j]]}

ExistingPromises(groupsToLoad, pending) ==
    {pending[g] : g \in Range(groupsToLoad) \cap DOMAIN pending}

\* a loadGroups that awaits only its own request once it has issued one
AwaitedPromisesOwnOnly(existingPromises, fetchPromise) ==
    IF fetchPromise = NoPromise THEN existingPromises ELSE {fetchPromise}

\* line 446 and line 495: what the call hands to Promise.all
AwaitedPromises(existingPromises, fetchPromise) ==
    existingPromises \cup (IF fetchPromise = NoPromise THEN {} ELSE {fetchPromise})

\* Promise.all over promises p with fs[p].status; an empty list resolves
PromiseAll(ps, fs) ==
    IF \E p \in ps : fs[p].status = "failed" THEN "rejected"
    ELSE IF \A p \in ps : fs[p].status = "ok" THEN "resolved"
    ELSE "pending"

\* a loadGroups that registers the operation under its first name only
RegisterPendingFirstOnly(pending, newGroupsToLoad, fetchPromise) ==
    [g \in DOMAIN pending \cup {Head(newGroupsToLoad)} |->
        IF g = Head(newGroupsToLoad) THEN fetchPromise ELSE pending[g]]

\* lines 489-492
RegisterPending(pending, newGroupsToLoad, fetchPromise) ==
    [g \in DOMAIN pending \cup Range(newGroupsToLoad) |->
        IF g \in Range(newGroupsToLoad) THEN fetchPromise ELSE pending[g]]

\* lines 416-496, up to the final await, in a browser (outside one, lines
\* 418-420, the call returns at once and nothing happens).  The request is
\* sent inside the call (the async function of line 458 runs up to its await),
\* so the whole call is one step.  via names the caller.
ContextLoadGroups(s, groups, view, locale, via) ==
    LET groupsToLoad == GroupsToLoad(groups, view)
        newGroupsToLoad == NewGroupsToLoad(groupsToLoad, s.pendingRequestsRef)
        existingPromises == ExistingPromises(groupsToLoad, s.pendingRequestsRef)
        issues == Len(groupsToLoad) > 0 /\ Len(newGroupsToLoad) > 0
        fetchPromise == IF issues THEN s.nfetches + 1 ELSE NoPromise
        awaits == IF Len(groupsToLoad) = 0 THEN {}
                  ELSE AwaitedPromises(existingPromises, fetchPromise)
        call == [id |-> s.ncalls + 1,
                 via |-> via,
                 groups |-> groups,
                 groupsToLoad |-> Range(groupsToLoad),
                 joined |-> existingPromises,
                 issued |-> fetchPromise,
                 awaits |-> awaits,
                 status |-> IF issues THEN "pending" ELSE PromiseAll(awaits, s.fetches)]
        request == [groups |-> newGroupsToLoad, locale |-> locale,
                    epoch |-> s.epoch, status |-> "inflight"]
        called == [s EXCEPT !.calls = @ \cup {call},
                            !.ncalls = @ + 1,
                            !.lastCall = call.id]
    IN IF ~issues
       THEN called
       ELSE [called EXCEPT
               !.loadingGroups = @ \cup Range(newGroupsToLoad),
               !.stale = @ \cup {"groups"},
               !.fetches = (fetchPromise :> request) @@ @,
               !.nfetches = fetchPromise,
               !.pendingRequestsRef = RegisterPending(@, newGroupsToLoad, fetchPromise)]

\* ------------------------------------------------------- the hook's wrapper
\* useLazyTranslations.ts lines 113-123 (loadGroups), 98-108 (loadGroup) and
\* 135-143 (reload), up to the await: setError(null), then the context call.
SetError(s, e) ==
    IF s.hook.error = e THEN s
    ELSE [s EXCEPT !.hook.error = e]

\* a wrapper that leaves the last error where it is
HookLoadGroupsKeepsError(s, groupsToLoad, view, locale, via) ==
    ContextLoadGroups(s, groupsToLoad, view, locale, via)

HookLoadGroups(s, groupsToLoad, view, locale, via) ==
    ContextLoadGroups(SetError(s, FALSE), groupsToLoad, view, locale, via)

HookVias == {"hook", "reload", "eager", "locale"}

\* the wrapper rethrows (line 121); the effects end the promise they started
\* in .catch(() => {}) (lines 159-161 and 175-177), the explicit operations
\* hand the rejection to their caller
EffectVias == {"eager", "locale"}
EffectCatches(via) == via \in {"eager", "locale"}

\* calls of the hook that were pending in before and are rejected in s
Caught(before, s) ==
    {c \in s.calls :
        /\ c.via \in HookVias
        /\ c.status = "rejected"
        /\ \E b \in before.calls : b.id = c.id /\ b.status = "pending"}

\* a catch block that calls onError but does not store the error
HookCatchKeepsError(before, s) ==
    LET caught == Caught(before, s)
    IN IF caught = {} THEN s
       ELSE [s EXCEPT !.hook.onErrorCalls = @ + Cardinality(caught)]

\* the catch blocks of the wrappers (lines 117-122), once per rejected call
HookCatch(before, s) ==
    LET caught == Caught(before, s)
    IN IF caught = {} THEN s
       ELSE [SetError(s, TRUE) EXCEPT
               !.hook.onErrorCalls = @ + Cardinality(caught),
               !.hook.unhandled =
                    @ \/ \E c \in caught : c.via \in EffectVias /\ ~EffectCatches(c.via)]

\* ------------------------------------------------------------- settlement
\* a merge that goes one level down: the keys of the old entry survive
MergeResponseDeep(prev, response) ==
    [g \in DOMAIN prev \cup DOMAIN response |->
        IF g \in DOMAIN prev /\ g \in DOMAIN response THEN response[g] @@ prev[g]
        ELSE IF g \in DOMAIN response THEN response[g]
        ELSE prev[g]]

\* {...prev, ...response.translations}: the response's groups win
MergeResponse(prev, response) == response @@ prev

\* a finally block that forgets only the first of its names
CleanUpPendingFirstOnly(pending, newGroupsToLoad) ==
    [g \in DOMAIN pending \ {newGroupsToLoad[1]} |-> pending[g]]

\* lines 476-485: by name, whichever operation the entry belongs to
CleanUpPending(pending, newGroupsToLoad) ==
    [g \in DOMAIN pending \ Range(newGroupsToLoad) |-> pending[g]]

\* an update that starts from an empty set instead of prev
MarkLoadedOnlyNew(prev, newGroupsToLoad) == Range(newGroupsToLoad)

\* lines 469-473
MarkLoaded(prev, newGroupsToLoad) == prev \cup Range(newGroupsToLoad)

\* every call's promise after the promises it awaits have changed
SettleCalls(cs, fs) ==
    {IF c.status = "pending" THEN [c EXCEPT !.status = PromiseAll(c.awaits, fs)] ELSE c :
        c \in cs}

\* a settlement that marks the names loaded in the finally block, whatever
\* the outcome
FetchSettlesMarksLoadedInFinally(s, p, ok, response) ==
    LET newGroupsToLoad == s.fetches[p].groups
        fs == [s.fetches EXCEPT ![p].status = IF ok THEN "ok" ELSE "failed"]
        merged == IF ok THEN MergeResponse(s.mergedTranslations, response)
                  ELSE s.mergedTranslations
        settled ==
            [s EXCEPT
               !.fetches = fs,
               !.mergedTranslations = merged,
               !.loadedGroups = MarkLoaded(@, newGroupsToLoad),
               !.loadingGroups = @ \ Range(newGroupsToLoad),
               !.pendingRequestsRef = CleanUpPending(@, newGroupsToLoad),
               !.stale = @ \cup {"groups"},
               !.calls = SettleCalls(@, fs),
               !.lastCall = 0]
    IN HookCatch(s, settled)

\* lines 458-487 after the await: the try body on success, then the finally
FetchSettles(s, p, ok, response) ==
    LET newGroupsToLoad == s.fetches[p].groups
        fs == [s.fetches EXCEPT ![p].status = IF ok THEN "ok" ELSE "failed"]
        merged == IF ok THEN MergeResponse(s.mergedTranslations, response)
                  ELSE s.mergedTranslations
        loaded == IF ok THEN MarkLoaded(s.loadedGroups, newGroupsToLoad)
                  ELSE s.loadedGroups
        settled ==
            [s EXCEPT
               !.fetches = fs,
               !.mergedTranslations = merged,
               !.loadedGroups = loaded,
               !.loadingGroups = @ \ Range(newGroupsToLoad),
               !.pendingRequestsRef = CleanUpPending(@, newGroupsToLoad),
               !.stale = @ \cup {"groups"},
               !.calls = SettleCalls(@, fs),
               !.lastCall = 0]
    IN HookCatch(s, settled)

\* what the server may answer to a request for groups issued under locale l:
\* the requested groups it knows
Responses(groups, l) == {[g \in D |-> FetchedEntry(l)] : D \in SUBSET Range(groups)}

\* ---------------------------------------------------------- render + effects
\* an eager effect that asks for every declared name
EagerEffectAllDeclared(s, view, locale, changed) ==
    LET h == s.hook
        runs == ~h.mounted \/ "groups" \in changed \/ "declared" \in changed
    IN IF runs /\ h.eager /\ Len(h.groups) > 0
       THEN HookLoadGroups(s, h.groups, view, locale, "eager")
       ELSE s

\* useLazyTranslations.ts lines 147-163
EagerEffect(s, view, locale, changed) ==
    LET h == s.hook
        runs == ~h.mounted \/ "groups" \in changed \/ "declared" \in changed
        groupsToLoad == GroupsToLoad(h.groups, view)
    IN IF runs /\ h.eager /\ Len(h.groups) > 0 /\ Len(groupsToLoad) > 0
       THEN HookLoadGroups(s, groupsToLoad, view, locale, "eager")
       ELSE s

\* a locale effect that reloads whatever eager says
LocaleEffectAlwaysReloads(s, view, locale) ==
    LET h == s.hook
    IN IF h.previousLocaleRef # view.locale
       THEN LET s1 == SetError([s EXCEPT !.hook.previousLocaleRef = view.locale], FALSE)
            IN IF Len(h.groups) > 0
               THEN HookLoadGroups(s1, h.groups, view, locale, "locale")
               ELSE s1
       ELSE s

\* useLazyTranslations.ts lines 166-180
LocaleEffect(s, view, locale) ==
    LET h == s.hook
    IN IF h.previousLocaleRef # view.locale
       THEN LET s1 == SetError([s EXCEPT !.hook.previousLocaleRef = view.locale], FALSE)
            IN IF h.eager /\ Len(h.groups) > 0
               THEN HookLoadGroups(s1, h.groups, view, locale, "locale")
               ELSE s1
       ELSE s

HookEffects(s, view, locale, changed) ==
    IF ~s.hook.present THEN s
    ELSE [LocaleEffect(EagerEffect(s, view, locale, changed), view, locale)
            EXCEPT !.hook.mounted = TRUE]

\* a reaction that resets the sets but keeps the lazily loaded tables
LocaleChangeEffectKeepsTable(s, currentLocale, initialTranslations, ilg) ==
    IF s.previousLocaleRef # currentLocale
    THEN [s EXCEPT
            !.previousLocaleRef = currentLocale,
            !.loadedGroups = InitialLoaded(ilg, initialTranslations),
            !.loadingGroups = {},
            !.pendingRequestsRef = EmptyMap,
            !.epoch = @ + 1,
            !.stale = @ \cup {"groups"}]
    ELSE s

\* lazyLoading.ts lines 384-403
LocaleChangeEffect(s, currentLocale, initialTranslations, ilg) ==
    IF s.previousLocaleRef # currentLocale
    THEN [s EXCEPT
            !.previousLocaleRef = currentLocale,
            !.mergedTranslations = initialTranslations,
            !.loadedGroups = InitialLoaded(ilg, initialTranslations),
            !.loadingGroups = {},
            !.pendingRequestsRef = EmptyMap,
            !.epoch = @ + 1,
            !.stale = @ \cup {"groups"}]
    ELSE s

\* a merge effect in which the new props win: {...prev, ...initialTranslations}
MergeInitialOverwrites(s, initialTranslations, changed) ==
    IF "lingua" \in changed
    THEN [s EXCEPT !.mergedTranslations = initialTranslations @@ @]
    ELSE s

\* a merge effect that also marks the groups of the new props loaded
MergeInitialMarksLoaded(s, initialTranslations, changed) ==
    IF "lingua" \in changed
    THEN [s EXCEPT !.mergedTranslations = @ @@ initialTranslations,
                   !.loadedGroups = @ \cup extractGroupNames(initialTranslations)]
    ELSE s

\* lazyLoading.ts lines 406-411: {...initialTranslations, ...prev}
MergeInitialEffect(s, initialTranslations, changed) ==
    IF "lingua" \in changed
    THEN [s EXCEPT !.mergedTranslations = @ @@ initialTranslations]
    ELSE s

ProviderEffects(s, currentLocale, initialTranslations, ilg, changed) ==
    MergeInitialEffect(
        LocaleChangeEffect(s, currentLocale, initialTranslations, ilg),
        initialTranslations, changed)

\* lines 520-544, the part consumers decide on
ContextOf(locale, loaded, loading) ==
    [locale |-> locale, loadedGroups |-> loaded, loadingGroups |-> loading]

\* lazyLoading.ts lines 508-510 and 515-517
isGroupLoaded(view, group) == group \in view.loadedGroups
isGroupLoading(view, group) == group \in view.loadingGroups

\* Array.prototype.some / every over the flags of a list
some(flags) == \E i \in 1..Len(flags) : flags[i]
every(flags) == \A i \in 1..Len(flags) : flags[i]

\* an isLoading that wants every declared group to be loading
isLoadingEvery ==
    every([i \in 1..Len(hook.groups) |-> isGroupLoading(contextValue, hook.groups[i])])

\* useLazyTranslations.ts lines 183-189, in the last committed render
isLoading ==
    some([i \in 1..Len(hook.groups) |-> isGroupLoading(contextValue, hook.groups[i])])

isLoaded ==
    every([i \in 1..Len(hook.groups) |-> isGroupLoaded(contextValue, hook.groups[i])])

WithinBounds(s) == s.ncalls <= MaxCalls /\ s.nfetches <= MaxFetches

\* ------------------------------------------------------------------ actions
\* One committed render of the provider and its consumer, with the effects of
\* the commit: the consumer's first, then the provider's.
Render ==
    /\ stale # {}
    /\ LET view == ContextOf(lingua.locale, loadedGroups, loadingGroups)
           s0 == [Store EXCEPT !.stale = {}]
           s1 == HookEffects(s0, view, lingua.locale, stale)
           s2 == ProviderEffects(s1, lingua.locale, lingua.translations,
                                 initialLoadedGroups, stale)
       IN /\ WithinBounds(s2)
          /\ contextValue' = view
          /\ Commit([s2 EXCEPT !.lastCall = 0])
    /\ UNCHANGED <<lingua, initialLoadedGroups, visits>>

\* A component calls the context's loadGroups (loadGroup(g) is loadGroups([g]),
\* lines 501-503) through the closure of the last committed render.
LoadGroups(groups) ==
    /\ LET s == ContextLoadGroups(Store, groups, contextValue, lingua.locale, "direct")
       IN WithinBounds(s) /\ Commit(s)
    /\ UNCHANGED <<lingua, initialLoadedGroups, contextValue, visits>>

\* The transport answers request p
FetchSucceeds(p, response) ==
    /\ p \in DOMAIN fetches
    /\ fetches[p].status = "inflight"
    /\ Commit(FetchSettles(Store, p, TRUE, response))
    /\ UNCHANGED <<lingua, initialLoadedGroups, contextValue, visits>>

FetchFails(p) ==
    /\ p \in DOMAIN fetches
    /\ fetches[p].status = "inflight"
    /\ Commit(FetchSettles(Store, p, FALSE, EmptyMap))
    /\ UNCHANGED <<lingua, initialLoadedGroups, contextValue, visits>>

\* The host delivers new page props (lines 345-356)
PageVisit(props) ==
    /\ visits < MaxVisits
    /\ props # lingua
    /\ lingua' = props
    /\ visits' = visits + 1
    /\ Commit([Store EXCEPT !.stale = @ \cup {"lingua"}])
    /\ UNCHANGED <<initialLoadedGroups, contextValue>>

\* The consumer's explicit operations
HookCallsLoadGroups(groups) ==
    /\ hook.present /\ hook.mounted
    /\ LET s == HookLoadGroups(Store, groups, contextValue, lingua.locale, "hook")
       IN WithinBounds(s) /\ Commit(s)
    /\ UNCHANGED <<lingua, initialLoadedGroups, contextValue, visits>>

\* useLazyTranslations.ts lines 128-144
Reload ==
    /\ hook.present /\ hook.mounted
    /\ Len(hook.groups) > 0
    /\ LET s == HookLoadGroups(Store, hook.groups, contextValue, lingua.locale, "reload")
       IN WithinBounds(s) /\ Commit(s)
    /\ UNCHANGED <<lingua, initialLoadedGroups, contextValue, visits>>

\* The consumer is rendered with another groups option (memoizedGroups, lines
\* 92-93, changes when the joined names change)
DeclareGroups(groups) ==
    /\ hook.present /\ hook.mounted
    /\ groups # hook.groups
    /\ Commit([Store EXCEPT !.hook.groups = groups, !.stale = @ \cup {"declared"}])
    /\ UNCHANGED <<lingua, initialLoadedGroups, contextValue, visits>>

\* ------------------------------------------------------------ fetch client
\* The exported fetch client (lazyLoading.ts lines 1-249) used directly, by a
\* caller that awaits each call.  sent is what went to the network.
\* A string the client takes apart or puts together is a sequence of atoms:
\* one character, or a run of characters written as one atom ("XSRF-TOKEN").
\* An options object is the function of the properties it has.
providerVars ==
    <<lingua, initialLoadedGroups, previousLocaleRef, mergedTranslations,
      loadedGroups, loadingGroups, pendingRequestsRef, contextValue, stale,
      fetches, calls, nfetches, ncalls, lastCall, epoch, visits, hook>>

NoClient ==
    [created |-> FALSE, options |-> EmptyMap, called |-> FALSE, ncalls |-> 0,
     op |-> "none", group |-> <<>>, groups |-> <<>>, sent |-> <<>>,
     outcome |-> "none", response |-> {}, value |-> {}, error |-> {}]

\* lines 11 and 16
DEFAULT_BASE_URL == ""
DEFAULT_CSRF_SELECTOR == "meta[name=\"csrf-token\"]"

BaseUrls == {"", "/api"}

\* options?.name ?? default
OptionOr(options, name, default) ==
    IF name \in DOMAIN options THEN options[name] ELSE default

\* lines 21-24
buildUrl(endpoint, options) ==
    <<OptionOr(options, "baseUrl", DEFAULT_BASE_URL)>> \o endpoint

\* s.split(sep): the pieces of s between the atoms sep, at least one piece
RECURSIVE splitBy(_, _)
splitBy(s, sep) ==
    IF \A i \in DOMAIN s : s[i] # sep THEN <<s>>
    ELSE LET i == CHOOSE i \in DOMAIN s :
                      s[i] = sep /\ \A j \in 1..(i - 1) : s[j] # sep
         IN <<SubSeq(s, 1, i - 1)>> \o splitBy(SubSeq(s, i + 1, Len(s)), sep)

\* s.trim()
RECURSIVE trim(_)
trim(s) ==
    IF s = <<>> THEN s
    ELSE IF s[1] = " " THEN trim(Tail(s))
    ELSE IF s[Len(s)] = " " THEN trim(SubSeq(s, 1, Len(s) - 1))
    ELSE s

\* the reserved characters the model has, and their escapes
Escapes == ("=" :> "%3D") @@ (";" :> "%3B") @@ ("/" :> "%2F") @@ (" " :> "%20")

encodeURIComponent(s) ==
    [i \in DOMAIN s |-> IF s[i] \in DOMAIN Escapes THEN Escapes[s[i]] ELSE s[i]]

decodeURIComponent(s) ==
    [i \in DOMAIN s |->
        IF \E c \in DOMAIN Escapes : Escapes[c] = s[i]
        THEN CHOOSE c \in DOMAIN Escapes : Escapes[c] = s[i]
        ELSE s[i]]

\* the document.cookie getter: the jar's cookies as name=value, joined by
\* "; ".  Laravel writes the value of its XSRF-TOKEN cookie URL-encoded
\* (line 70); the other cookies are as their writers left them.
RECURSIVE cookieString(_)
cookieString(jar) ==
    IF jar = <<>> THEN <<>>
    ELSE LET c == jar[1]
             value == IF c.name = <<"XSRF-TOKEN">> THEN encodeURIComponent(c.value)
                      ELSE c.value
             one == c.name \o <<"=">> \o value
         IN IF Len(jar) = 1 THEN one
            ELSE one \o <<";", " ">> \o cookieString(Tail(jar))

\* lines 66-73: the loop over the cookies
RECURSIVE findXsrfCookie(_)
findXsrfCookie(cookies) ==
    IF cookies = <<>> THEN {}
    ELSE LET parts == splitBy(trim(cookies[1]), "=")
             name == parts[1]
         IN IF name = <<"XSRF-TOKEN">> /\ Len(parts) >= 2 /\ parts[2] # <<>>
            THEN {decodeURIComponent(parts[2])}
            ELSE findXsrfCookie(Tail(cookies))

\* a function that looks at the cookie before the meta tag
getCSRFTokenCookieFirst(options, doc) ==
    IF "csrfToken" \in DOMAIN options /\ options.csrfToken # <<>>
    THEN {options.csrfToken}
    ELSE IF ~doc.defined THEN {}
    ELSE LET selector == OptionOr(options, "csrfSelector", DEFAULT_CSRF_SELECTOR)
             fromCookie == findXsrfCookie(splitBy(cookieString(doc.jar), ";"))
         IN IF fromCookie # {} THEN fromCookie
            ELSE IF /\ selector \in DOMAIN doc.metas
                    /\ "content" \in DOMAIN doc.metas[selector]
                    /\ doc.metas[selector].content # <<>>
            THEN {doc.metas[selector].content}
            ELSE {}

\* lines 44-76: the token, or the empty set for null
getCSRFToken(options, doc) ==
    IF "csrfToken" \in DOMAIN options /\ options.csrfToken # <<>>
    THEN {options.csrfToken}
    ELSE IF ~doc.defined THEN {}
    ELSE LET selector == OptionOr(options, "csrfSelector", DEFAULT_CSRF_SELECTOR)
         IN IF /\ selector \in DOMAIN doc.metas
               /\ "content" \in DOMAIN doc.metas[selector]
               /\ doc.metas[selector].content # <<>>
            THEN {doc.metas[selector].content}
            ELSE findXsrfCookie(splitBy(cookieString(doc.jar), ";"))

\* lines 81-103: later properties replace earlier ones of the same name
buildHeaders(method, options, doc) ==
    LET headers == OptionOr(options, "headers", EmptyMap)
                   @@ ("Accept" :> <<"application/json">>)
                   @@ ("X-Requested-With" :> <<"XMLHttpRequest">>)
        csrfToken == getCSRFToken(options, doc)
    IN IF method # "POST" THEN headers
       ELSE IF csrfToken = {} THEN ("Content-Type" :> <<"application/json">>) @@ headers
       ELSE LET token == CHOOSE t \in csrfToken : TRUE
            IN ("X-CSRF-TOKEN" :> token) @@ ("X-XSRF-TOKEN" :> token)
               @@ ("Content-Type" :> <<"application/json">>) @@ headers

\* lines 158-160
EmptyResponse == [locale |-> "", translations |-> EmptyMap]

\* lines 126-130 and 197-201; a GET has no body
GetRequest(endpoint, options, doc) ==
    [method |-> "GET",
     url |-> buildUrl(endpoint, options),
     headers |-> buildHeaders("GET", options, doc),
     credentials |-> "same-origin",
     body |-> {}]

\* lines 164-169
PostRequest(groups, options, doc) ==
    [method |-> "POST",
     url |-> buildUrl(<<"/lingua/translations">>, options),
     headers |-> buildHeaders("POST", options, doc),
     credentials |-> "same-origin",
     body |-> {[groups |-> groups]}]

\* the call as it starts: the promise is pending until the transport answers
Calls(c, op, group, groups) ==
    [c EXCEPT !.called = TRUE, !.ncalls = @ + 1, !.op = op,
              !.group = group, !.groups = groups,
              !.outcome = "pending", !.response = {}, !.value = {}, !.error = {}]

\* lines 120-130, up to the await of fetch
fetchTranslationGroup(c, group, doc) ==
    [Calls(c, "fetchTranslationGroup", group, <<>>) EXCEPT
        !.sent = Append(@, GetRequest(<<"/lingua/translations/">> \o encodeURIComponent(group),
                                      c.options, doc))]

\* a client that posts whatever list it is given
fetchTranslationGroupsAlwaysPosts(c, groups, doc) ==
    [Calls(c, "fetchTranslationGroups", <<>>, groups) EXCEPT
        !.sent = Append(@, PostRequest(groups, c.options, doc))]

\* lines 154-169, up to the await of fetch
fetchTranslationGroups(c, groups, doc) ==
    IF Len(groups) = 0
    THEN [Calls(c, "fetchTranslationGroups", <<>>, groups) EXCEPT
             !.outcome = "resolved", !.value = {EmptyResponse}]
    ELSE [Calls(c, "fetchTranslationGroups", <<>>, groups) EXCEPT
             !.sent = Append(@, PostRequest(groups, c.options, doc))]

\* lines 192-201, up to the await of fetch
fetchAvailableGroups(c, doc) ==
    [Calls(c, "fetchAvailableGroups", <<>>, <<>>) EXCEPT
        !.sent = Append(@, GetRequest(<<"/lingua/groups">>, c.options, doc))]

\* what the server's JSON body may be for a request for groups
JsonBodies(groups) ==
    UNION {{[locale |-> l, translations |-> response] :
                response \in Responses(groups, l)} : l \in Locales}

\* the body of whatever the last call asked for
JsonBodiesOf(c) ==
    IF c.op = "fetchTranslationGroups" THEN JsonBodies(c.groups)
    ELSE IF c.op = "fetchTranslationGroup"
    THEN {[group |-> c.group, locale |-> l, translations |-> FetchedEntry(l)] :
             l \in Locales}
    ELSE {[locale |-> l, groups |-> gs] : l \in Locales, gs \in {<<>>, <<"a", "b">>}}

\* the responses the transport may deliver; response.ok is status in 200..299
OkStatuses == {200}
NotOkStatuses == {404, 500}
StatusText == (200 :> "OK") @@ (404 :> "Not Found") @@ (500 :> "")

\* lines 133, 172 and 204: the message of the Error that is thrown
ErrorMessage(c, status, statusText) ==
    IF c.op = "fetchTranslationGroup"
    THEN <<"Failed to fetch translation group '">> \o c.group
             \o <<"': ", ToString(status), " ", statusText>>
    ELSE IF c.op = "fetchTranslationGroups"
    THEN <<"Failed to fetch translation groups: ", ToString(status), " ", statusText>>
    ELSE <<"Failed to fetch available groups: ", ToString(status), " ", statusText>>

\* new Error(message): an Error object has a name and a message
Error(message) == [name |-> "Error", message |-> message]

\* the Response the transport delivered
Response(status) == [status |-> status, statusText |-> StatusText[status]]

\* the client's three functions without the check of response.ok
SettleIgnoresStatus(c, status, json) ==
    [c EXCEPT !.outcome = "resolved", !.response = {Response(status)},
              !.value = {json}]

\* lines 132-136, 171-175 and 203-207: after the await of fetch
Settle(c, status, json) ==
    IF status \in 200..299
    THEN [c EXCEPT !.outcome = "resolved", !.response = {Response(status)},
                   !.value = {json}]
    ELSE [c EXCEPT !.outcome = "rejected", !.response = {Response(status)},
                   !.error = {Error(ErrorMessage(c, status, StatusText[status]))}]

\* line 460: the request a fetch of the provider puts on the network, for a
\* provider without the lazyLoadOptions prop
ProviderRequest(f, doc) == fetchTranslationGroups(NoClient, f.groups, doc).sent[1]

\* the pages the client may run in: no document at all (outside a browser),
\* or a document with its meta elements and its cookies
Meta(content) == ("name" :> <<"csrf-token">>) @@ ("content" :> content)
CustomSelector == "meta[name=\"X-CSRF-TOKEN\"]"
MetaSets ==
    {EmptyMap,
     (DEFAULT_CSRF_SELECTOR :> Meta(<<"m">>)),
     (DEFAULT_CSRF_SELECTOR :> Meta(<<>>)),
     (DEFAULT_CSRF_SELECTOR :> ("name" :> <<"csrf-token">>)),
     (DEFAULT_CSRF_SELECTOR :> Meta(<<"m">>)) @@ (CustomSelector :> Meta(<<"c">>))}

Cookie(name, value) == [name |-> name, value |-> value]
Jars ==
    {<<>>,
     <<Cookie(<<"XSRF-TOKEN">>, <<"t", "=">>)>>,
     <<Cookie(<<"k">>, <<"a", "=", "b">>), Cookie(<<"XSRF-TOKEN">>, <<"t">>)>>,
     <<Cookie(<<"XSRF-TOKEN">>, <<>>), Cookie(<<"XSRF-TOKEN">>, <<"u">>)>>}

NoDocument == [defined |-> FALSE, metas |-> EmptyMap, jar |-> <<>>]
Documents ==
    {NoDocument} \cup {[defined |-> TRUE, metas |-> ms, jar |-> jar] :
                            ms \in MetaSets, jar \in Jars}

\* the page of a Laravel application: the meta tag and the cookie
LaravelDocument ==
    [defined |-> TRUE, metas |-> (DEFAULT_CSRF_SELECTOR :> Meta(<<"m">>)),
     jar |-> <<Cookie(<<"XSRF-TOKEN">>, <<"t", "=">>)>>]

\* the options objects callers configure the client with
OptionsWith(names) ==
    LET all == [baseUrl |-> "/api", csrfToken |-> <<"tok">>,
                csrfSelector |-> CustomSelector,
                headers |-> ("X-Custom" :> <<"c">>)]
    IN [n \in names |-> all[n]]

LazyLoadOptions ==
    {OptionsWith(names) : names \in SUBSET {"baseUrl", "csrfToken", "csrfSelector", "headers"}}
    \cup {[csrfToken |-> <<>>],
          [headers |-> ("X-CSRF-TOKEN" :> <<"h">>)],
          [headers |-> ("Accept" :> <<"text/html">>) @@ ("X-XSRF-TOKEN" :> <<"h">>)]}

\* the group names a direct caller asks for one at a time
GroupNames == {<<"a">>, <<"a", "/", "b">>}

\* lines 227-249: the caller fixes its options once
CreateLazyLoader(options) ==
    /\ ~client.created
    /\ ~client.called
    /\ client' = [client EXCEPT !.created = TRUE, !.options = options]
    /\ UNCHANGED <<providerVars, translation, document, switcher>>

\* a call is made when the one before has settled
CanCall(c) == c.outcome # "pending" /\ c.ncalls < MaxRequests + 1

ClientFetchGroup(group) ==
    /\ CanCall(client)
    /\ client' = fetchTranslationGroup(client, group, document)
    /\ Len(client'.sent) <= MaxRequests
    /\ UNCHANGED <<providerVars, translation, document, switcher>>

ClientFetchGroups(groups) ==
    /\ CanCall(client)
    /\ client' = fetchTranslationGroups(client, groups, document)
    /\ Len(client'.sent) <= MaxRequests
    /\ UNCHANGED <<providerVars, translation, document, switcher>>

ClientFetchAvailable ==
    /\ CanCall(client)
    /\ client' = fetchAvailableGroups(client, document)
    /\ Len(client'.sent) <= MaxRequests
    /\ UNCHANGED <<providerVars, translation, document, switcher>>

\* the transport delivers a response with a status and a JSON body
ClientResponse(status, json) ==
    /\ client.outcome = "pending"
    /\ client' = Settle(client, status, json)
    /\ UNCHANGED <<providerVars, translation, document, switcher>>

\* the transport fails: fetch rejects (a TypeError) and the call with it
ClientNetworkError ==
    /\ client.outcome = "pending"
    /\ client' = [client EXCEPT !.outcome = "rejected",
                                !.error = {[name |-> "TypeError", message |-> <<"Failed to fetch">>]}]
    /\ UNCHANGED <<providerVars, translation, document, switcher>>

\* ------------------------------------------------------- translate function
\* __ of useTranslations.ts lines 56-85 and useLazyTranslations.ts lines
\* 197-226 (the same code over the page props' / the context's table).
\* A string is a sequence of atoms; an atom is one character, or a run of
\* characters without '.', ':' or '$' written as one atom ("constructor").
\* A JavaScript value is a record tagged with its kind.
Str(chars) == [type |-> "string", chars |-> chars]
Num(digits) == [type |-> "number", digits |-> digits]
Obj(props) == [type |-> "object", props |-> props]
Null == [type |-> "null"]
Undefined == [type |-> "undefined"]
Function == [type |-> "function"]

\* what every plain object inherits
ObjectPrototype == (<<"constructor">> :> Function)

\* value[k] on an object
Get(value, k) ==
    IF k \in DOMAIN value.props THEN value.props[k]
    ELSE IF k \in DOMAIN ObjectPrototype THEN ObjectPrototype[k]
    ELSE Undefined

\* String.prototype.split('.')
RECURSIVE split(_)
split(s) ==
    IF \A i \in 1..Len(s) : s[i] # "."
    THEN <<s>>
    ELSE LET i == CHOOSE j \in 1..Len(s) :
                     s[j] = "." /\ \A m \in 1..(j - 1) : s[m] # "."
         IN <<SubSeq(s, 1, i - 1)>> \o split(SubSeq(s, i + 1, Len(s)))

\* a walk that stops after the first segment
walkOneLevel(value, keys) ==
    IF keys = <<>> THEN value
    ELSE IF value.type = "object" THEN Get(value, Head(keys))
    ELSE Undefined

\* the loop of lines 61-69
RECURSIVE walk(_, _)
walk(value, keys) ==
    IF keys = <<>> THEN value
    ELSE IF value.type \in {"undefined", "null"} THEN value
    ELSE IF value.type = "object" THEN walk(Get(value, Head(keys)), Tail(keys))
    ELSE Undefined

\* String(v) of a string or a number
String(v) == IF v.type = "string" THEN v.chars ELSE v.digits

\* new RegExp(`:${k}`, 'g'): each atom of the source matches itself, except
\* '.', which matches any one character
RegExp(k) == <<":">> \o k

MatchesAt(pattern, s) ==
    /\ Len(s) >= Len(pattern)
    /\ \A j \in 1..Len(pattern) : pattern[j] = "." \/ pattern[j] = s[j]

\* the replacement patterns of String.prototype.replace: $& is the matched
\* text and $$ a dollar sign
RECURSIVE Expand(_, _)
Expand(template, matched) ==
    IF template = <<>> THEN <<>>
    ELSE IF Len(template) >= 2 /\ template[1] = "$" /\ template[2] = "&"
         THEN matched \o Expand(SubSeq(template, 3, Len(template)), matched)
    ELSE IF Len(template) >= 2 /\ template[1] = "$" /\ template[2] = "$"
         THEN <<"$">> \o Expand(SubSeq(template, 3, Len(template)), matched)
    ELSE <<Head(template)>> \o Expand(Tail(template), matched)

\* str.replace(pattern, template) with the g flag: the matches from left to
\* right, none overlapping another
RECURSIVE replace(_, _, _)
replace(str, pattern, template) ==
    IF str = <<>> THEN <<>>
    ELSE IF MatchesAt(pattern, str)
         THEN Expand(template, SubSeq(str, 1, Len(pattern)))
                \o replace(SubSeq(str, Len(pattern) + 1, Len(str)), pattern, template)
    ELSE <<Head(str)>> \o replace(Tail(str), pattern, template)

\* Object.entries(replacements).reduce(..., value), lines 76-79
RECURSIVE reduce(_, _)
reduce(entries, str) ==
    IF entries = <<>> THEN str
    ELSE reduce(Tail(entries),
                replace(str, RegExp(Head(entries).k), String(Head(entries).v)))

\* a translate function that also returns numbers, as strings
translateFunctionStringifies(translations, key, replacements) ==
    LET keys == split(key)
        value == walk(translations, keys)
    IN IF value.type = "number" THEN value.digits
       ELSE IF value.type # "string" THEN key
       ELSE IF replacements.given THEN reduce(replacements.entries, value.chars)
       ELSE value.chars

\* lines 57-83
translateFunction(translations, key, replacements) ==
    LET keys == split(key)
        value == walk(translations, keys)
    IN IF value.type # "string" THEN key
       ELSE IF replacements.given THEN reduce(replacements.entries, value.chars)
       ELSE value.chars

\* nobody has called the translate function
NoTranslation ==
    [called |-> FALSE, table |-> Obj(EmptyMap), key |-> <<>>,
     replacements |-> [given |-> FALSE, entries |-> <<>>], result |-> <<>>]

\* a component calls __(key, replacements) over a table; the function keeps
\* no state, so one call per behaviour covers every call
Translate(table, key, replacements) ==
    /\ ~translation.called
    /\ translation' = [called |-> TRUE, table |-> table, key |-> key,
                       replacements |-> replacements,
                       result |-> translateFunction(table, key, replacements)]
    /\ UNCHANGED <<providerVars, client, document, switcher>>

\* the strings of atoms from A of length at most n
StringsUpTo(A, n) == UNION {[1..m -> A] : m \in 0..n}

KeyAtoms == {"m", "h", ".", "constructor"}
Keys == StringsUpTo(KeyAtoms, MaxKeyLen)

LeafAtoms == {":", "n", "x", "."}
Leaves == StringsUpTo(LeafAtoms, MaxLeafLen)

\* the table {m: {h: leaf}}
TableWith(leaf) == Obj(<<"m">> :> Obj(<<"h">> :> leaf))

\* tables with strings at both levels, a null, a number, a nested mapping,
\* an empty property name
KeyTables ==
    {Obj(EmptyMap),
     Obj((<<"m">> :> Obj((<<"h">> :> Str(<<"x", ":", "n">>))
                         @@ (<<"m">> :> Null)
                         @@ (<<>> :> Str(<<"n">>))))
         @@ (<<"h">> :> Str(<<"x">>))),
     Obj(<<"m">> :> Obj((<<"h">> :> Obj(<<"m">> :> Str(<<"x">>)))
                        @@ (<<"m">> :> Num(<<"5">>)))),
     Obj((<<"m">> :> Null) @@ (<<"h">> :> Num(<<"5">>)))}

NotGiven == [given |-> FALSE, entries |-> <<>>]
Given(entries) == [given |-> TRUE, entries |-> entries]

ReplacementNames == {<<"n">>, <<".">>}
ReplacementValues ==
    {Str(<<"v">>), Str(<<"$", "&">>), Str(<<"$", "$">>), Num(<<"5">>)}

\* the mappings of at most two names, in iteration order
Entries == {[k |-> k1, v |-> v1] : k1 \in ReplacementNames, v1 \in ReplacementValues}

Replacements ==
    {NotGiven, Given(<<>>)}
    \cup {Given(<<e>>) : e \in Entries}
    \cup {Given(es) : es \in {pair \in Entries \X Entries : pair[1].k # pair[2].k}}

\* ---------------------------------------------------------- LocaleSwitcher
\* components/LocaleSwitcher.tsx.  props is the function of the props the
\* component was given, page the lingua page prop it reads through
\* useTranslations (the empty function when the page has none), posts what
\* went to the Inertia router.
NoSwitcher ==
    [present |-> FALSE, props |-> EmptyMap, page |-> EmptyMap, isOpen |-> FALSE,
     nselects |-> 0, selected |-> "", posts |-> <<>>, visiting |-> FALSE]

\* useTranslations.ts lines 89-90
useTranslationsLocale(page) == OptionOr(page, "locale", "en")
useTranslationsLocales(page) == OptionOr(page, "locales", <<"en">>)

\* LocaleSwitcher.tsx lines 86 and 90: the defaults of the props
SwitcherEndpoint(props) == OptionOr(props, "endpoint", "/locale")
SwitcherVariant(props) == OptionOr(props, "variant", "dropdown")

\* lines 222-225, 237-243 and 314-338: the locales that can be selected
Selectable(sw) ==
    IF Len(useTranslationsLocales(sw.page)) <= 1 THEN {}
    ELSE IF SwitcherVariant(sw.props) = "buttons" \/ sw.isOpen
    THEN Range(useTranslationsLocales(sw.page))
    ELSE {}

\* lines 100-120
handleLocaleChange(sw, newLocale) ==
    LET currentLocale == useTranslationsLocale(sw.page)
        selected == [sw EXCEPT !.nselects = @ + 1, !.selected = newLocale]
    IN IF newLocale = currentLocale
       THEN [selected EXCEPT !.isOpen = FALSE]
       ELSE [selected EXCEPT
               !.posts = Append(@, [url |-> SwitcherEndpoint(sw.props),
                                    data |-> [locale |-> newLocale]]),
               !.visiting = TRUE]

SwitcherUnchanged ==
    UNCHANGED <<providerVars, client, translation, document>>

\* line 283: the trigger button of the dropdown
SwitcherToggle ==
    /\ switcher.present
    /\ Len(useTranslationsLocales(switcher.page)) > 1
    /\ SwitcherVariant(switcher.props) = "dropdown"
    /\ switcher' = [switcher EXCEPT !.isOpen = ~@]
    /\ SwitcherUnchanged

\* a click on, or Enter over, one of the locales (lines 243, 338 and 181)
SwitcherSelect(newLocale) ==
    /\ switcher.present
    /\ switcher.nselects < MaxSelects
    /\ newLocale \in Selectable(switcher)
    /\ switcher' = handleLocaleChange(switcher, newLocale)
    /\ SwitcherUnchanged

\* the visit succeeds: the server's page props replace the page's, with the
\* locale it has set, and onSuccess runs (lines 113-115)
SwitcherVisitSucceeds(locale) ==
    /\ switcher.present
    /\ switcher.visiting
    /\ locale \in Range(useTranslationsLocales(switcher.page))
    /\ switcher' = [switcher EXCEPT !.visiting = FALSE, !.isOpen = FALSE,
                                    !.page = [@ EXCEPT !.locale = locale]]
    /\ SwitcherUnchanged

\* the visit fails: nothing the component holds changes
SwitcherVisitFails ==
    /\ switcher.present
    /\ switcher.visiting
    /\ switcher' = [switcher EXCEPT !.visiting = FALSE]
    /\ SwitcherUnchanged

\* the components a page may hold and the page props it may have
SwitcherProps ==
    {EmptyMap, [endpoint |-> "/api/locale"], [variant |-> "buttons"],
     [endpoint |-> "/api/locale", variant |-> "buttons"]}

SwitcherPages ==
    {EmptyMap, [locale |-> "en", locales |-> <<"en">>],
     [locale |-> "en", locales |-> <<"en", "fr">>],
     [locale |-> "fr", locales |-> <<"en", "fr", "ar">>]}

\* ----------------------------------------------------------- specifications
NoHookRecord ==
    [present |-> FALSE, mounted |-> FALSE, groups |-> <<>>, eager |-> FALSE,
     error |-> FALSE, previousLocaleRef |-> "en", onErrorCalls |-> 0,
     unhandled |-> FALSE]

InitialLoadedGroupsProps ==
    {[supplied |-> FALSE, groups |-> {}], [supplied |-> TRUE, groups |-> {"a"}]}

\* The provider after its first committed render (lines 345-375)
InitProvider ==
    /\ lingua \in {props \in LinguaProps : props.locale = "en"}
    /\ initialLoadedGroups \in InitialLoadedGroupsProps
    /\ previousLocaleRef = lingua.locale
    /\ mergedTranslations = lingua.translations
    /\ loadedGroups = InitialLoaded(initialLoadedGroups, lingua.translations)
    /\ loadingGroups = {}
    /\ pendingRequestsRef = EmptyMap
    /\ contextValue = ContextOf(lingua.locale, loadedGroups, loadingGroups)
    /\ fetches = EmptyMap
    /\ calls = {}
    /\ nfetches = 0
    /\ ncalls = 0
    /\ lastCall = 0
    /\ epoch = 0
    /\ visits = 0
    /\ client = NoClient
    /\ translation = NoTranslation

Init ==
    /\ InitProvider
    /\ stale = {}
    /\ hook = NoHookRecord
    /\ document = LaravelDocument
    /\ switcher = NoSwitcher

\* the argument lists callers pass
Names == {<<>>, <<"a">>, <<"b">>, <<"a", "b">>, <<"a", "a">>}

Next ==
    \/ \E groups \in Names : LoadGroups(groups)
    \/ \E p \in DOMAIN fetches : \E response \in Responses(fetches[p].groups, fetches[p].locale) :
          FetchSucceeds(p, response)
    \/ \E p \in DOMAIN fetches : FetchFails(p)
    \/ \E props \in LinguaProps : PageVisit(props)
    \/ Render

Spec == Init /\ [][Next]_vars

\* The same provider with one useLazyTranslations consumer about to mount
HookGroups == {<<>>, <<"a">>, <<"a", "b">>}

InitHook ==
    /\ InitProvider
    /\ document = LaravelDocument
    /\ switcher = NoSwitcher
    /\ ~initialLoadedGroups.supplied
    /\ stale = {"mount"}
    /\ hook \in {[present |-> TRUE, mounted |-> FALSE, groups |-> gs, eager |-> e,
                   error |-> FALSE, previousLocaleRef |-> lingua.locale,
                   onErrorCalls |-> 0, unhandled |-> FALSE] :
                        gs \in HookGroups, e \in BOOLEAN}

HookNames == {<<"b">>, <<"a", "b">>}

NextHook ==
    \/ \E groups \in HookNames : HookCallsLoadGroups(groups)
    \/ Reload
    \/ \E p \in DOMAIN fetches : \E response \in Responses(fetches[p].groups, fetches[p].locale) :
          FetchSucceeds(p, response)
    \/ \E p \in DOMAIN fetches : FetchFails(p)
    \/ \E props \in LinguaProps : PageVisit(props)
    \/ Render

SpecHook == InitHook /\ [][NextHook]_vars

\* the transport answers request p with one of the bodies the server may send
AnswersFetch(p) ==
    \E response \in Responses(fetches[p].groups, fetches[p].locale) :
        FetchSucceeds(p, response)

\* A consumer with eager = false, whose declared names may change
InitLazy ==
    /\ InitHook
    /\ ~hook.eager
    /\ hook.groups # <<"a", "b">>

NextLazy ==
    \/ HookCallsLoadGroups(<<"b">>)
    \/ Reload
    \/ \E groups \in HookGroups : DeclareGroups(groups)
    \/ \E p \in DOMAIN fetches : AnswersFetch(p)
    \/ \E p \in DOMAIN fetches : FetchFails(p)
    \/ \E props \in LinguaProps : PageVisit(props)
    \/ Render

SpecLazy == InitLazy /\ [][NextLazy]_vars

\* A provider nobody calls
IdleProvider ==
    /\ InitProvider
    /\ stale = {}
    /\ hook = NoHookRecord
    /\ lingua.translations = EmptyMap
    /\ ~initialLoadedGroups.supplied

\* The fetch client called directly, next to an idle provider, in any page
InitClient ==
    /\ IdleProvider
    /\ document \in Documents
    /\ switcher = NoSwitcher

NextClient ==
    \/ \E options \in LazyLoadOptions : CreateLazyLoader(options)
    \/ \E group \in GroupNames : ClientFetchGroup(group)
    \/ \E groups \in Names : ClientFetchGroups(groups)
    \/ ClientFetchAvailable
    \/ \E status \in OkStatuses \cup NotOkStatuses : \E json \in JsonBodiesOf(client) :
          ClientResponse(status, json)
    \/ ClientNetworkError

SpecClient == InitClient /\ [][NextClient]_vars

\* The translate function called over fixed tables with every key, and with
\* one key over every leaf string and mapping of replacements
InitTranslate == IdleProvider /\ document = LaravelDocument /\ switcher = NoSwitcher

NextTranslate ==
    \/ \E table \in KeyTables : \E key \in Keys :
          \E replacements \in {NotGiven, Given(<<[k |-> <<"n">>, v |-> Str(<<"v">>)]>>)} :
             Translate(table, key, replacements)
    \/ \E leaf \in Leaves : \E replacements \in Replacements :
          Translate(TableWith(Str(leaf)), <<"m", ".", "h">>, replacements)

SpecTranslate == InitTranslate /\ [][NextTranslate]_vars

\* A page with a LocaleSwitcher, next to an idle provider
InitSwitcher ==
    /\ IdleProvider
    /\ document = LaravelDocument
    /\ switcher \in {[NoSwitcher EXCEPT !.present = TRUE, !.props = props, !.page = page] :
                         props \in SwitcherProps, page \in SwitcherPages}

NextSwitcher ==
    \/ SwitcherToggle
    \/ \E newLocale \in Locales \cup {"ar"} : SwitcherSelect(newLocale)
    \/ \E locale \in Locales \cup {"ar"} : SwitcherVisitSucceeds(locale)
    \/ SwitcherVisitFails

SpecSwitcher == InitSwitcher /\ [][NextSwitcher]_vars

\* The provider mounted under any page props and any initialLoadedGroups, an
\* empty list included (an array is truthy, line 365), and then used on that
\* page
MountLoadedGroupsProps ==
    InitialLoadedGroupsProps \cup
        {[supplied |-> TRUE, groups |-> {}], [supplied |-> TRUE, groups |-> {"a", "b"}]}

InitMount ==
    /\ lingua \in LinguaProps
    /\ initialLoadedGroups \in MountLoadedGroupsProps
    /\ previousLocaleRef = lingua.locale
    /\ mergedTranslations = lingua.translations
    /\ loadedGroups = InitialLoaded(initialLoadedGroups, lingua.translations)
    /\ loadingGroups = {}
    /\ pendingRequestsRef = EmptyMap
    /\ contextValue = ContextOf(lingua.locale, loadedGroups, loadingGroups)
    /\ stale = {}
    /\ fetches = EmptyMap
    /\ calls = {}
    /\ nfetches = 0
    /\ ncalls = 0
    /\ lastCall = 0
    /\ epoch = 0
    /\ visits = 0
    /\ hook = NoHookRecord
    /\ client = NoClient
    /\ translation = NoTranslation
    /\ document = LaravelDocument
    /\ switcher = NoSwitcher

NextMount ==
    \/ \E groups \in Names : LoadGroups(groups)
    \/ \E p \in DOMAIN fetches : AnswersFetch(p)
    \/ \E p \in DOMAIN fetches : FetchFails(p)
    \/ Render

SpecMount == InitMount /\ [][NextMount]_vars

\* The provider with direct callers over a transport that answers every
\* request, with a response or with a failure
SettlingNames == {<<"a">>, <<"a", "b">>}

InitSettling == Init /\ ~initialLoadedGroups.supplied

NextSettling ==
    \/ \E groups \in SettlingNames : ncalls < MaxSettlingCalls /\ LoadGroups(groups)
    \/ \E p \in DOMAIN fetches : AnswersFetch(p)
    \/ \E p \in DOMAIN fetches : FetchFails(p)
    \/ \E props \in LinguaProps : PageVisit(props)
    \/ Render

SpecSettling ==
    /\ InitSettling
    /\ [][NextSettling]_vars
    /\ WF_vars(\E p \in DOMAIN fetches : AnswersFetch(p) \/ FetchFails(p))

\* The eager consumer left alone: the host changes the page props, React
\* re-renders whenever state has changed, and the transport answers every
\* request successfully.
InitEager ==
    /\ InitHook
    /\ hook.eager
    /\ hook.groups # <<>>

NextEager ==
    \/ \E p \in DOMAIN fetches : AnswersFetch(p)
    \/ \E props \in LinguaProps : PageVisit(props)
    \/ Render

SpecEager ==
    /\ InitEager
    /\ [][NextEager]_vars
    /\ WF_vars(Render)
    /\ WF_vars(\E p \in DOMAIN fetches : AnswersFetch(p))

\* ------------------------------------------------------------------ claims
InFlight == {p \in DOMAIN fetches : fetches[p].status = "inflight"}

FetchesOf(g) == {p \in DOMAIN fetches : g \in Range(fetches[p].groups)}

\* the calls made by the step, and the requests it issued
NewCalls == {c \in calls' : c.id > ncalls}
NewFetches == {p \in DOMAIN fetches' : p > nfetches}

\* the step settles request p
Settles(p) ==
    /\ p \in InFlight
    /\ p \in DOMAIN fetches'
    /\ fetches'[p].status # "inflight"

\* the step is the provider's locale-change reaction
LocaleReaction == previousLocaleRef # lingua.locale /\ previousLocaleRef' = lingua.locale

\* C1: for every group name, at most one fetch whose request contains it is in
\* flight, in every reachable state.
C1_AtMostOneFetchInFlight ==
    \A g \in Groups : Cardinality(FetchesOf(g) \cap InFlight) <= 1

C3_LoadedGroupsAreNotFetchedAgain ==
    [][/\ \A p \in DOMAIN fetches :
            (Settles(p) /\ fetches'[p].status = "ok")
                => Range(fetches[p].groups) \subseteq loadedGroups'
       /\ \A c \in NewCalls :
            Range(c.groups) \subseteq loadedGroups => NewFetches = {}]_vars

\* C4: the names of a failed fetch are neither loaded nor loading and have no
\* pending entry, and a call for such a name issues a new request for it.
C4_FailedGroupsAreRetried ==
    [][/\ \A p \in DOMAIN fetches :
            (Settles(p) /\ fetches'[p].status = "failed") =>
                \A g \in Range(fetches[p].groups) :
                    /\ g \notin loadedGroups'
                    /\ g \notin loadingGroups'
                    /\ g \notin DOMAIN pendingRequestsRef'
       /\ \A c \in NewCalls : \A g \in Range(c.groups) :
            (\E p \in FetchesOf(g) : fetches[p].status = "failed")
                => \E q \in NewFetches : g \in Range(fetches'[q].groups)]_vars

\* C5: the locale-change reaction leaves loaded equal to the initial group set
\* (initialLoadedGroups if supplied, else the groups of the initial
\* translations), the table equal to the initial translations, and loading and
\* pending empty.
C5_LocaleChangeResets ==
    [][LocaleReaction =>
         /\ loadedGroups' = (IF initialLoadedGroups.supplied
                             THEN initialLoadedGroups.groups
                             ELSE DOMAIN lingua.translations)
         /\ mergedTranslations' = lingua.translations
         /\ loadingGroups' = {}
         /\ DOMAIN pendingRequestsRef' = {}]_vars

\* a lazily loaded group the reaction has just discarded
C5_Witness ==
    /\ epoch > 0
    /\ previousLocaleRef = lingua.locale
    /\ contextValue.locale = lingua.locale
    /\ \E g \in contextValue.loadedGroups :
          /\ g \notin loadedGroups
          /\ g \notin DOMAIN mergedTranslations
          /\ g \notin DOMAIN lingua.translations

\* C6: a fetch issued before a locale change and settled after it changes
\* neither the table nor loaded.
C6_StaleResultDiscarded ==
    [][\A p \in DOMAIN fetches :
         (Settles(p) /\ fetches[p].epoch < epoch)
            => /\ mergedTranslations' = mergedTranslations
               /\ loadedGroups' = loadedGroups]_vars

\* C7: a call with a non-empty fresh set issues exactly one request, carrying
\* the fresh names, and registers that operation under every fresh name.
FreshNames(groups) ==
    {g \in Range(groups) :
        /\ g \notin contextValue.loadedGroups
        /\ g \notin contextValue.loadingGroups
        /\ g \notin DOMAIN pendingRequestsRef}

C7_OneBatchedFetchPerCall ==
    [][\A c \in NewCalls :
         FreshNames(c.groups) # {} =>
            /\ NewFetches = {c.issued}
            /\ Range(fetches'[c.issued].groups) = FreshNames(c.groups)
            /\ fetches'[c.issued].status = "inflight"
            /\ \A g \in FreshNames(c.groups) :
                  /\ g \in DOMAIN pendingRequestsRef'
                  /\ pendingRequestsRef'[g] = c.issued
            /\ \A g \in DOMAIN pendingRequestsRef' \ FreshNames(c.groups) :
                  /\ g \in DOMAIN pendingRequestsRef
                  /\ pendingRequestsRef'[g] = pendingRequestsRef[g]]_vars

C7_Witness ==
    \E c \in calls :
        /\ c.id = lastCall
        /\ c.issued # NoPromise
        /\ Cardinality(Range(fetches[c.issued].groups)) = 2
        /\ \A g \in Range(fetches[c.issued].groups) : pendingRequestsRef[g] = c.issued

\* C8: when a fetch fails, the call that issued it and every call that joined
\* it are rejected; none of them resolves.
C8_FailureReachesEveryAwaitingCall ==
    \A c \in calls : \A p \in (c.joined \cup {c.issued}) \cap DOMAIN fetches :
        fetches[p].status = "failed" => c.status = "rejected"

C8_Witness ==
    \E c1 \in calls : \E c2 \in calls :
        /\ c1.issued # NoPromise
        /\ c1.issued \in DOMAIN fetches
        /\ fetches[c1.issued].status = "failed"
        /\ c1.issued \in c2.joined
        /\ c2.issued # NoPromise
        /\ c1.status = "rejected" /\ c2.status = "rejected"

\* C9: after a fetch for a group failed, the eager hook issues no further
\* request for that group on its own under the same locale.
C9_NoAutomaticRetry ==
    [][\A p \in DOMAIN fetches :
         (fetches[p].status = "failed" /\ ~LocaleReaction
            /\ hook.previousLocaleRef = lingua.locale)
         => \A c \in NewCalls :
              c.via = "eager" =>
                 \A q \in NewFetches :
                    Range(fetches'[q].groups) \cap Range(fetches[p].groups) = {}]_vars

\* C10: loaded and loading are disjoint in every reachable state.
C10_LoadedLoadingDisjoint == loadedGroups \cap loadingGroups = {}

\* C11: with an eager consumer declaring g, once the page props carry locale l
\* and the provider has not reacted to it yet, eventually (every fetch
\* succeeding) a request containing g has been issued under l after that change
\* and every declared group is loaded, unless the new page props deliver g
\* themselves or the locale changes again.
LocaleChanged(l) ==
    /\ hook.present /\ hook.eager
    /\ lingua.locale = l
    /\ previousLocaleRef # l

\* the number of locale-change reactions that preceded the change to the
\* current locale
EpochOfChange == IF previousLocaleRef = lingua.locale THEN epoch - 1 ELSE epoch

FetchedSinceChange(g) ==
    \E p \in DOMAIN fetches :
        /\ g \in Range(fetches[p].groups)
        /\ fetches[p].locale = lingua.locale
        /\ fetches[p].epoch >= EpochOfChange

C11_EagerRefetchesAfterLocaleChange ==
    \A l \in Locales :
        /\ \A g \in Groups :
              (LocaleChanged(l) /\ g \in Range(hook.groups))
                  ~> \/ lingua.locale # l
                     \/ g \in DOMAIN lingua.translations
                     \/ FetchedSinceChange(g)
        /\ LocaleChanged(l)
              ~> \/ lingua.locale # l
                 \/ /\ previousLocaleRef = l
                    /\ Range(hook.groups) \subseteq loadedGroups

\* C12: the consumer's isLoading is true exactly when a declared group is in
\* loading and its isLoaded exactly when every declared group is in loaded (the
\* sets of the render it was computed in, which are the provider's sets once
\* rendering has caught up); with no declared group isLoading is false and
\* isLoaded is true.
C12_IsLoadingIsLoaded ==
    hook.present =>
        /\ isLoading <=> Range(hook.groups) \cap contextValue.loadingGroups # {}
        /\ isLoaded <=> Range(hook.groups) \subseteq contextValue.loadedGroups
        /\ stale = {} =>
              /\ isLoading <=> Range(hook.groups) \cap loadingGroups # {}
              /\ isLoaded <=> Range(hook.groups) \subseteq loadedGroups
        /\ hook.groups = <<>> => ~isLoading /\ isLoaded

C12_Witness ==
    /\ hook.present /\ hook.mounted
    /\ stale = {}
    /\ isLoading /\ ~isLoaded
    /\ \E g \in Range(hook.groups) : g \in loadedGroups /\ g \notin loadingGroups
    /\ \E g \in Range(hook.groups) : g \in loadingGroups /\ g \notin loadedGroups

\* the step is the first commit of the consumer
Activation == hook.present /\ ~hook.mounted /\ hook'.mounted

\* the declared names that are neither loaded nor loading, in declared order
NotYetLoaded ==
    SelectSeq(hook.groups, LAMBDA g : g \notin loadedGroups /\ g \notin loadingGroups)

\* the calls the step made from the given callers
NewCallsVia(vias) == {c \in NewCalls : c.via \in vias}

\* C13: on activation an eager consumer calls loadGroups once, with exactly the
\* declared names that are neither loaded nor loading, and makes no such call
\* when there is none (in particular when nothing is declared).
C13_EagerActivationLoadsMissing ==
    [][(Activation /\ hook.eager) =>
         IF Len(NotYetLoaded) > 0
         THEN \E c \in NewCalls :
                 /\ NewCallsVia({"eager"}) = {c}
                 /\ c.groups = NotYetLoaded
         ELSE NewCallsVia({"eager"}) = {}]_vars

C13_Witness ==
    /\ hook.mounted /\ hook.eager
    /\ hook.groups = <<"a", "b">>
    /\ ncalls = 1
    /\ \E c \in calls : c.via = "eager" /\ c.groups = <<"b">> /\ c.issued = 1

\* C14: a consumer with eager = false makes no call on its own: every call of
\* a step comes from an explicit loadGroup / loadGroups / reload, and so does
\* every request issued.
C14_NotEagerNeverLoadsOnItsOwn ==
    [][(hook.present /\ ~hook.eager) =>
         /\ NewCallsVia(EffectVias) = {}
         /\ \A q \in NewFetches :
               \E c \in NewCallsVia({"hook", "reload"}) : c.issued = q]_vars

\* activated, then taken through a locale change and a change of the declared
\* names (a and b are never the names declared first), without a single call
C14_Witness ==
    /\ hook.present /\ hook.mounted /\ ~hook.eager
    /\ hook.groups = <<"a", "b">>
    /\ contextValue.loadedGroups = {}
    /\ lingua.locale = "fr"
    /\ hook.previousLocaleRef = "fr" /\ previousLocaleRef = "fr"
    /\ stale = {}
    /\ ~isLoaded
    /\ ncalls = 0 /\ nfetches = 0

\* C15: when calls the consumer's effects made are rejected, the consumer's
\* error is set, onError has been called once for each call of the consumer
\* rejected in the step, and no rejection is left unhandled.
C15_EagerFailureIsCaught ==
    [][LET rejected == {c \in calls' :
                          /\ c.via \in HookVias
                          /\ c.status = "rejected"
                          /\ \E b \in calls : b.id = c.id /\ b.status = "pending"}
       IN (\E c \in rejected : c.via \in EffectVias) =>
             /\ hook'.error
             /\ hook'.onErrorCalls = hook.onErrorCalls + Cardinality(rejected)
             /\ ~hook'.unhandled
             /\ hook'.present /\ hook'.mounted]_vars

C15_Witness ==
    /\ hook.error
    /\ hook.onErrorCalls = 1
    /\ ~hook.unhandled
    /\ \E c \in calls : c.via = "eager" /\ c.status = "rejected"

\* C16: reload calls loadGroups with the declared names, and issues no request
\* when every declared group is loaded.
C16_ReloadCannotRefetch ==
    [][\A c \in NewCallsVia({"reload"}) :
         /\ c.groups = hook.groups
         /\ hook.groups # <<>>
         /\ Range(hook.groups) \subseteq loadedGroups => NewFetches = {}]_vars

\* C17: fetchTranslationGroups called with an empty list resolves to
\* {locale: "", translations: {}} and sends nothing to the network.
C17_EmptyListShortCircuits ==
    [][(/\ client'.ncalls = client.ncalls + 1
        /\ client'.op = "fetchTranslationGroups"
        /\ client'.groups = <<>>) =>
          /\ client'.outcome = "resolved"
          /\ client'.value = {[locale |-> "", translations |-> EmptyMap]}
          /\ client'.sent = client.sent]_vars

\* an empty call made after a request had gone out
C17_Witness ==
    /\ client.called
    /\ client.op = "fetchTranslationGroups"
    /\ client.groups = <<>>
    /\ client.outcome = "resolved"
    /\ client.value = {EmptyResponse}
    /\ Len(client.sent) = 1

\* the walk the contract describes: one segment at a time through nested
\* mappings, over the table's own entries
RECURSIVE Lookup(_, _)
Lookup(value, segments) ==
    IF segments = <<>> THEN value
    ELSE IF value.type = "object" /\ Head(segments) \in DOMAIN value.props
         THEN Lookup(value.props[Head(segments)], Tail(segments))
    ELSE Undefined

\* the segments of a dotted key: the maximal runs without a dot
Segments(key) ==
    LET dots == {i \in 1..Len(key) : key[i] = "."}
        starts == {1} \cup {i + 1 : i \in dots}
        end(i) == IF \E d \in dots : d >= i
                  THEN (CHOOSE d \in dots : d >= i /\ \A e \in dots : e >= i => d <= e) - 1
                  ELSE Len(key)
        order == CHOOSE f \in [1..Cardinality(starts) -> starts] :
                    \A a, b \in 1..Cardinality(starts) : a < b => f[a] < f[b]
    IN [n \in 1..Cardinality(starts) |-> SubSeq(key, order[n], end(order[n]))]

Found == Lookup(translation.table, Segments(translation.key))

\* C18: a call without replacements whose key's walk ends at a string returns
\* that string.
C18_StringLeafIsReturned ==
    (translation.called /\ ~translation.replacements.given /\ Found.type = "string")
        => translation.result = Found.chars

C18_Witness ==
    /\ translation.called /\ ~translation.replacements.given
    /\ translation.key = <<"m", ".", "h">>
    /\ translation.result = <<"x", ":", "n">>

\* C19: a call whose key's walk does not end at a string returns the key, with
\* or without replacements (a call always returns: translateFunction is total).
C19_MissReturnsKey ==
    (translation.called /\ Found.type # "string")
        => translation.result = translation.key

\* a nested mapping at the end of the walk, with replacements given
C19_Witness ==
    /\ translation.called /\ translation.replacements.given
    /\ translation.key = <<"m", ".", "h">>
    /\ Found.type = "object"
    /\ translation.result = translation.key

\* every occurrence of the atoms of what in str replaced by with, verbatim
RECURSIVE Substitute(_, _, _)
Substitute(str, what, with) ==
    IF str = <<>> THEN <<>>
    ELSE IF Len(str) >= Len(what) /\ SubSeq(str, 1, Len(what)) = what
         THEN with \o Substitute(SubSeq(str, Len(what) + 1, Len(str)), what, with)
    ELSE <<Head(str)>> \o Substitute(Tail(str), what, with)

RECURSIVE SubstituteAll(_, _)
SubstituteAll(str, entries) ==
    IF entries = <<>> THEN str
    ELSE SubstituteAll(
            Substitute(str, <<":">> \o Head(entries).k,
                       IF Head(entries).v.type = "number"
                       THEN Head(entries).v.digits ELSE Head(entries).v.chars),
            Tail(entries))

\* C20: with replacements given and the key resolving to a string, the result
\* is that string with every occurrence of :name replaced by the stringified
\* value, name after name in the mapping's iteration order.
C20_PlaceholdersAreReplaced ==
    (translation.called /\ translation.replacements.given /\ Found.type = "string")
        => translation.result = SubstituteAll(Found.chars, translation.replacements.entries)

\* the sources of the token, as the page and the options hold them
TokenHeaders == {"X-CSRF-TOKEN", "X-XSRF-TOKEN"}

ExplicitToken(options) ==
    IF "csrfToken" \in DOMAIN options /\ options.csrfToken # <<>>
    THEN {options.csrfToken} ELSE {}

MetaToken(options, doc) ==
    LET selector == IF "csrfSelector" \in DOMAIN options THEN options.csrfSelector
                    ELSE "meta[name=\"csrf-token\"]"
    IN IF doc.defined /\ selector \in DOMAIN doc.metas
       THEN {doc.metas[selector][a] : a \in DOMAIN doc.metas[selector] \cap {"content"}} \ {<<>>}
       ELSE {}

CookieToken(doc) ==
    LET found == {i \in DOMAIN doc.jar :
                     doc.jar[i].name = <<"XSRF-TOKEN">> /\ doc.jar[i].value # <<>>}
    IN IF doc.defined /\ found # {}
       THEN {doc.jar[CHOOSE i \in found : \A j \in found : i <= j].value}
       ELSE {}

TokenByPrecedence(options, doc) ==
    IF ExplicitToken(options) # {} THEN ExplicitToken(options)
    ELSE IF MetaToken(options, doc) # {} THEN MetaToken(options, doc)
    ELSE CookieToken(doc)

\* the step sends a request
Sends == Len(client'.sent) = Len(client.sent) + 1
Sent == client'.sent[Len(client'.sent)]

\* the token headers of a request are the ones the caller's own headers name
OnlyOwnTokenHeaders(r, options) ==
    \A h \in TokenHeaders :
        IF "headers" \in DOMAIN options /\ h \in DOMAIN options.headers
        THEN h \in DOMAIN r.headers /\ r.headers[h] = options.headers[h]
        ELSE h \notin DOMAIN r.headers

\* C21 as stated: a POST carries the token chosen by precedence (csrfToken
\* option, meta tag of csrfSelector, XSRF-TOKEN cookie) under both header
\* names, or neither header when there is no token; a GET carries neither.
C21_TokenByPrecedence ==
    [][Sends =>
          LET token == TokenByPrecedence(client.options, document)
          IN IF Sent.method = "POST" /\ token # {}
             THEN \A h \in TokenHeaders :
                     h \in DOMAIN Sent.headers /\ {Sent.headers[h]} = token
             ELSE \A h \in TokenHeaders : h \notin DOMAIN Sent.headers]_vars

\* C21 amended: a POST carries the token chosen by precedence under both
\* header names; a POST without a token, and every GET, has only the token
\* headers that the headers option itself names, with the values given there.
C21_TokenByPrecedenceOrOwnHeaders ==
    [][Sends =>
          LET token == TokenByPrecedence(client.options, document)
          IN IF Sent.method = "POST" /\ token # {}
             THEN \A h \in TokenHeaders :
                     h \in DOMAIN Sent.headers /\ {Sent.headers[h]} = token
             ELSE OnlyOwnTokenHeaders(Sent, client.options)]_vars

\* a POST that took the second cookie's decoded value past an empty meta tag
\* and the caller's own header, after a GET that kept the caller's header
C21_Witness ==
    /\ Len(client.sent) = 2
    /\ client.options = [headers |-> ("X-CSRF-TOKEN" :> <<"h">>)]
    /\ document.metas = ("meta[name=\"csrf-token\"]" :> Meta(<<>>))
    /\ client.sent[1].method = "GET"
    /\ client.sent[1].headers["X-CSRF-TOKEN"] = <<"h">>
    /\ client.sent[2].method = "POST"
    /\ client.sent[2].headers["X-CSRF-TOKEN"] = <<"u">>
    /\ client.sent[2].headers["X-XSRF-TOKEN"] = <<"u">>

\* the last call got a non-success response
NotOk == \E r \in client.response : r.status \notin 200..299

\* the text an operation's failure starts with
FailurePrefix ==
    IF client.op = "fetchTranslationGroup"
    THEN <<"Failed to fetch translation group '">> \o client.group \o <<"': ">>
    ELSE IF client.op = "fetchTranslationGroups"
    THEN <<"Failed to fetch translation groups: ">>
    ELSE <<"Failed to fetch available groups: ">>

\* the decimal digits of an HTTP status
Digits(n) ==
    LET d(k) == <<"0", "1", "2", "3", "4", "5", "6", "7", "8", "9">>[k + 1]
    IN d(n \div 100) \o d((n \div 10) % 10) \o d(n % 10)

\* a call sends one request when it starts and none afterwards
OneRequestPerCall ==
    /\ client'.ncalls = client.ncalls + 1 =>
          Len(client'.sent) = Len(client.sent) +
              (IF client'.op = "fetchTranslationGroups" /\ client'.groups = <<>> THEN 0 ELSE 1)
    /\ client'.ncalls = client.ncalls => client'.sent = client.sent

C23_SelectingPostsToEndpoint ==
    [][switcher'.nselects = switcher.nselects + 1 =>
          LET currentLocale == useTranslationsLocale(switcher.page)
              newLocale == switcher'.selected
              endpoint == IF "endpoint" \in DOMAIN switcher.props
                          THEN switcher.props.endpoint ELSE "/lingua/locale"
          IN IF newLocale # currentLocale
             THEN switcher'.posts =
                     Append(switcher.posts,
                            [url |-> endpoint, data |-> [locale |-> newLocale]])
             ELSE switcher'.posts = switcher.posts]_vars

\* C24: when an eager consumer that declares the one group a is activated
\* and a is not loaded, a is fetched by GET /lingua/translations/a.
C24_SingleGroupIsFetchedByGet ==
    [][(Activation /\ hook.eager /\ hook.groups = <<"a">> /\ "a" \notin loadedGroups) =>
          \E p \in NewFetches :
             LET request == ProviderRequest(fetches'[p], document)
             IN /\ request.method = "GET"
                /\ request.url = <<"", "/lingua/translations/", "a">>]_vars

\* C25: the step in which a fetch settles, successfully or not, leaves none
\* of the fetch's names in loading or in pending, and in no state does pending
\* hold an entry for a fetch that has settled.
C25_SettlementClearsLoadingAndPending ==
    /\ [][\A p \in DOMAIN fetches : Settles(p) =>
             \A g \in Range(fetches[p].groups) :
                g \notin loadingGroups' /\ g \notin DOMAIN pendingRequestsRef']_vars
    /\ [](\A g \in DOMAIN pendingRequestsRef :
             LET p == pendingRequestsRef[g]
             IN p \in DOMAIN fetches => fetches[p].status = "inflight")

\* a fetch of two names has just failed while a call was waiting for it
C25_Witness ==
    /\ \E p \in DOMAIN fetches :
          fetches[p].status = "failed" /\ fetches[p].groups = <<"a", "b">>
    /\ \E c \in calls : c.status = "rejected"
    /\ loadingGroups = {}
    /\ pendingRequestsRef = EmptyMap

\* the body of the request the step's call c has put on the network
BodyOf(c) == ProviderRequest(fetches'[c.issued], document).body

\* C26 as stated: loadGroups([a, a]) with a fresh issues one request, whose
\* list of names contains a once.
C26_DuplicateNamesCollapse ==
    [][\A c \in NewCalls :
         (c.groups = <<"a", "a">> /\ "a" \in FreshNames(c.groups)) =>
            /\ NewFetches = {c.issued}
            /\ BodyOf(c) = {[groups |-> <<"a">>]}]_vars

\* C26 amended: a call with a non-empty fresh set issues one request whose
\* list is the argument's fresh names in the argument's order, each as often
\* as the argument has it (a twice for [a, a]); the names collapse in loading
\* and in pending only.
C26_DuplicateNamesAreSentAsGiven ==
    [][\A c \in NewCalls :
         FreshNames(c.groups) # {} =>
            /\ NewFetches = {c.issued}
            /\ BodyOf(c) =
                  {[groups |-> SelectSeq(c.groups, LAMBDA g : g \in FreshNames(c.groups))]}
            /\ loadingGroups' = loadingGroups \cup FreshNames(c.groups)
            /\ DOMAIN pendingRequestsRef' =
                  DOMAIN pendingRequestsRef \cup FreshNames(c.groups)]_vars

\* the request of loadGroups([a, a]) in flight: a twice on the wire, once in
\* loading and in pending
C26_Witness ==
    \E c \in calls :
        /\ c.id = lastCall
        /\ c.groups = <<"a", "a">>
        /\ c.issued # NoPromise
        /\ fetches[c.issued].groups = <<"a", "a">>
        /\ loadingGroups = {"a"}
        /\ DOMAIN pendingRequestsRef = {"a"}

Considered(groups) ==
    {g \in Range(groups) :
        g \notin contextValue.loadedGroups /\ g \notin contextValue.loadingGroups}

\* the step's call c joins operations only
JoinsOnly(c) ==
    /\ Considered(c.groups) # {}
    /\ Considered(c.groups) \subseteq DOMAIN pendingRequestsRef

\* such a call issues no request, leaves loading and pending alone and
\* awaits the operations registered for its names
JoinStep ==
    \A c \in NewCalls :
        (c.via = "direct" /\ JoinsOnly(c)) =>
            /\ NewFetches = {}
            /\ c.issued = NoPromise
            /\ loadingGroups' = loadingGroups
            /\ pendingRequestsRef' = pendingRequestsRef
            /\ c.joined = {pendingRequestsRef[g] : g \in Considered(c.groups)}
            /\ c.awaits = c.joined

\* the calls that joined operations and issued none
Joiners == {c \in calls : c.issued = NoPromise /\ c.joined # {}}

Overwritten(table, old, response) ==
    /\ DOMAIN table = DOMAIN old \cup DOMAIN response
    /\ \A g \in DOMAIN response : table[g] = response[g]
    /\ \A g \in DOMAIN old \ DOMAIN response : table[g] = old[g]

\* C29: the step in which a fetch succeeds puts each group of the response
\* in the table in place of the entry of that name, whole, leaves every other
\* entry as it was, and adds the fetch's names to loaded.
C29_ResponseReplacesWholeEntries ==
    [][\A p \in DOMAIN fetches :
         (Settles(p) /\ fetches'[p].status = "ok") =>
            /\ \E response \in Responses(fetches[p].groups, fetches[p].locale) :
                  Overwritten(mergedTranslations', mergedTranslations, response)
            /\ loadedGroups' = loadedGroups \cup Range(fetches[p].groups)]_vars

\* the only request so far, for a, has succeeded after the page props had
\* brought an entry for a into the table: the fetched entry is there alone
C29_Witness ==
    /\ nfetches = 1 /\ epoch = 0 /\ visits = 1
    /\ "lingua" \notin stale
    /\ lingua.translations = PropsTable("en", {"a"})
    /\ \E p \in DOMAIN fetches : fetches[p].status = "ok"
    /\ mergedTranslations = ("a" :> FetchedEntry("en"))
    /\ "a" \in loadedGroups

\* the step is part of a load operation: a loadGroups call is made or a
\* request settles
LoadStep == NewCalls # {} \/ \E p \in DOMAIN fetches : Settles(p)

JustMounted == ncalls = 0 /\ nfetches = 0 /\ visits = 0 /\ epoch = 0

\* C31: in the initial state of the provider the table is the translations
\* of the page props, loaded is initialLoadedGroups when that prop is
\* supplied and the group names of those translations otherwise, and loading
\* and pending are empty.
C31_InitialState ==
    JustMounted =>
        /\ mergedTranslations = lingua.translations
        /\ loadedGroups = IF initialLoadedGroups.supplied
                          THEN initialLoadedGroups.groups
                          ELSE DOMAIN lingua.translations
        /\ loadingGroups = {}
        /\ pendingRequestsRef = EmptyMap

\* mounted with an empty initialLoadedGroups over props that carry a group:
\* nothing is loaded
C31_Witness ==
    /\ JustMounted
    /\ initialLoadedGroups = [supplied |-> TRUE, groups |-> {}]
    /\ DOMAIN mergedTranslations = {"a"}
    /\ loadedGroups = {}

\* the promise of call number id is pending
Pending(id) == \E c \in calls : c.id = id /\ c.status = "pending"

\* the requests a call depends on: the ones it joined and the one it issued
DependsOn(c) == c.joined \cup (IF c.issued = NoPromise THEN {} ELSE {c.issued})

EveryCallSettles == \A id \in 1..MaxSettlingCalls : Pending(id) ~> ~Pending(id)

NothingLeftWhenAllSettled ==
    InFlight = {} => loadingGroups = {} /\ pendingRequestsRef = EmptyMap

Finished(outcome) ==
    {c \in calls' :
        /\ c.via \in HookVias
        /\ c.status = outcome
        /\ c.id > ncalls \/ \E b \in calls : b.id = c.id /\ b.status = "pending"}

\* the step starts an attempt through the consumer, or is the consumer's
\* reaction to a locale change
ErrorReset ==
    \/ NewCallsVia(HookVias) # {}
    \/ hook.present /\ hook'.previousLocaleRef # hook.previousLocaleRef

\* C33 as stated: a step that starts an attempt through the consumer or in
\* which the consumer reacts to a locale change leaves error null, and after
\* a step in which the attempts that finished all succeeded error is null
\* (a non-null error belongs to the most recent attempt that finished).
C33_ErrorBelongsToLastFinishedAttempt ==
    [][/\ ErrorReset => ~hook'.error
       /\ (Finished("resolved") # {} /\ Finished("rejected") = {}) => ~hook'.error]_vars

\* C33 amended: such a step leaves error null; error becomes non-null only
\* in a step in which an attempt of the consumer is rejected, every such step
\* leaves it non-null, and a non-null error stays until the next reset, also
\* through the success of another attempt.
C33_ErrorStaysUntilNextAttempt ==
    [][/\ ErrorReset => ~hook'.error
       /\ Finished("rejected") # {} => hook'.error
       /\ (~hook.error /\ hook'.error) => Finished("rejected") # {}
       /\ (hook.error /\ ~hook'.error) => ErrorReset]_vars

\* two attempts overlapped, the first was rejected and the second has just
\* succeeded: the error of the first is still there
C33_Witness ==
    /\ hook.error
    /\ hook.onErrorCalls = 1
    /\ \E c \in calls : c.via = "hook" /\ c.status = "resolved" /\ c.issued # NoPromise
    /\ \A c \in calls : c.status # "rejected"

\* C34: in every reachable state loading is the set of the names that have
\* an entry in pending.
C34_LoadingIsDomainOfPending == loadingGroups = DOMAIN pendingRequestsRef

\* after a locale change two operations are registered, one for each name,
\* and both names are loading
C34_Witness ==
    /\ epoch = 1
    /\ loadingGroups = {"a", "b"}
    /\ DOMAIN pendingRequestsRef = {"a", "b"}
    /\ pendingRequestsRef["a"] # pendingRequestsRef["b"]

\* C35: the settlement of a request leaves alone every pending entry that
\* belongs to another request, and the name of such an entry stays in
\* loading, also when the entry was registered for the same name after a
\* locale change.
C35_SettlementRemovesOnlyItsOwnEntries ==
    [][\A p \in DOMAIN fetches : Settles(p) =>
          \A g \in DOMAIN pendingRequestsRef : pendingRequestsRef[g] # p =>
              /\ g \in DOMAIN pendingRequestsRef'
              /\ pendingRequestsRef'[g] = pendingRequestsRef[g]
              /\ g \in loadingGroups']_vars

\* C36: a step that is not the locale-change reaction keeps every name of
\* loaded in loaded.
C36_LoadedOnlyGrowsUnderALocale ==
    [][~LocaleReaction => loadedGroups \subseteq loadedGroups']_vars

\* a was loaded lazily, then the request for b failed: a is still loaded
C36_Witness ==
    /\ epoch = 0
    /\ ~initialLoadedGroups.supplied
    /\ lingua.translations = EmptyMap
    /\ loadedGroups = {"a"}
    /\ \E p \in DOMAIN fetches :
          fetches[p].status = "failed" /\ fetches[p].groups = <<"b">>

\* C37: the step in which a request fails leaves table and loaded as they
\* were; of the four, only loading and pending change, by the names of the
\* request.
C37_FailureLeavesTableAndLoaded ==
    [][\A p \in DOMAIN fetches : (Settles(p) /\ fetches'[p].status = "failed") =>
          /\ mergedTranslations' = mergedTranslations
          /\ loadedGroups' = loadedGroups
          /\ loadingGroups' = loadingGroups \ Range(fetches[p].groups)
          /\ DOMAIN pendingRequestsRef' = DOMAIN pendingRequestsRef \ Range(fetches[p].groups)
          /\ \A g \in DOMAIN pendingRequestsRef' :
                pendingRequestsRef'[g] = pendingRequestsRef[g]]_vars

\* the request for b has just failed beside a lazily loaded a: table and
\* loaded hold a alone, and b is neither loading nor pending
C37_Witness ==
    /\ \E p \in DOMAIN fetches :
          fetches[p].status = "failed" /\ fetches[p].groups = <<"b">>
    /\ DOMAIN mergedTranslations = {"a"}
    /\ mergedTranslations["a"] = FetchedEntry("en")
    /\ loadedGroups = {"a"}
    /\ loadingGroups = {}
    /\ pendingRequestsRef = EmptyMap
    /\ stale # {}

\* the ways request p may settle: a response with some of the requested
\* groups and nothing else, or a failure
Outcomes(p) ==
    {[ok |-> TRUE, response |-> r] : r \in Responses(fetches[p].groups, fetches[p].locale)}
        \cup {[ok |-> FALSE, response |-> EmptyMap]}

\* table, loaded, loading and pending after p settles with o1 and then q
\* with o2
AfterBoth(p, o1, q, o2) ==
    LET s == FetchSettles(FetchSettles(Store, p, o1.ok, o1.response), q, o2.ok, o2.response)
    IN <<s.mergedTranslations, s.loadedGroups, s.loadingGroups, s.pendingRequestsRef>>

Disjoint(p, q) == Range(fetches[p].groups) \cap Range(fetches[q].groups) = {}

\* a call all of whose names were fresh
AllFresh(c) == c.groupsToLoad = Range(c.groups) /\ c.groups # <<>> /\ c.joined = {}

\* C38: two calls with disjoint, fresh names have issued two separate
\* requests, each for the names of its call; and for two requests in flight
\* with disjoint names, table, loaded, loading and pending after both have
\* settled are the same whichever settles first, whatever the outcomes.
C38_DisjointSettlementsCommute ==
    /\ \A c1, c2 \in calls :
          (/\ c1.id # c2.id /\ AllFresh(c1) /\ AllFresh(c2)
           /\ Range(c1.groups) \cap Range(c2.groups) = {}) =>
             /\ c1.issued # NoPromise /\ c2.issued # NoPromise
             /\ c1.issued # c2.issued
             /\ \A c \in {c1, c2} :
                   c.issued \in DOMAIN fetches => fetches[c.issued].groups = c.groups
    /\ \A p, q \in InFlight :
          (p # q /\ Disjoint(p, q)) =>
             \A o1 \in Outcomes(p), o2 \in Outcomes(q) :
                AfterBoth(p, o1, q, o2) = AfterBoth(q, o2, p, o1)

\* two calls, for a and for b, each issued a request, and both requests have
\* succeeded
C38_Witness ==
    /\ ncalls = 2 /\ nfetches = 2 /\ epoch = 0
    /\ mergedTranslations = [g \in {"a", "b"} |-> FetchedEntry("en")]
    /\ loadedGroups = {"a", "b"}
    /\ loadingGroups = {}
    /\ pendingRequestsRef = EmptyMap
    /\ \E p \in DOMAIN fetches : fetches[p].status = "ok" /\ fetches[p].groups = <<"b">>

\* the loaded names that have no entry in the table
Missing == loadedGroups \ DOMAIN mergedTranslations

\* C39 as stated: without initialLoadedGroups, every name in loaded has an
\* entry in the table, in every reachable state.
C39_LoadedNamesHaveTableEntries ==
    ~initialLoadedGroups.supplied => loadedGroups \subseteq DOMAIN mergedTranslations

\* C39 amended: without initialLoadedGroups, every name in loaded has an
\* entry in the table as long as no request has been issued, and a name
\* comes to be loaded without an entry only in the step in which a request
\* for it succeeds with a response that does not contain it.
C39_LoadedWithoutEntryOnlyByPartialResponse ==
    /\ []((~initialLoadedGroups.supplied /\ nfetches = 0) => Missing = {})
    /\ [][~initialLoadedGroups.supplied =>
            \A g \in Missing' \ Missing :
               \E p \in DOMAIN fetches :
                  /\ Settles(p)
                  /\ fetches'[p].status = "ok"
                  /\ g \in Range(fetches[p].groups)]_vars

\* the request for a and b succeeded with a response that holds a only: b is
\* loaded and has no entry
C39_Witness ==
    /\ ~initialLoadedGroups.supplied
    /\ \E p \in DOMAIN fetches :
          fetches[p].status = "ok" /\ fetches[p].groups = <<"a", "b">>
    /\ loadedGroups = {"a", "b"}
    /\ DOMAIN mergedTranslations = {"a"}
    /\ mergedTranslations["a"] = FetchedEntry("en")

\* the step is the re-render that follows new page props under the locale the
\* provider already has, with no call and no settlement in it
SameLocaleRerender ==
    /\ "lingua" \in stale /\ "lingua" \notin stale'
    /\ previousLocaleRef = lingua.locale
    /\ ~LoadStep

\* C40: when the initial translations change under the same locale, the
\* table gains the groups of the new initial translations that it does not
\* have, keeps its own entry for every name it has, and loaded, loading and
\* pending are unchanged.
C40_NewInitialTranslationsAreMergedUnder ==
    [][SameLocaleRerender =>
          /\ DOMAIN mergedTranslations' =
                DOMAIN mergedTranslations \cup DOMAIN lingua.translations
          /\ \A g \in DOMAIN mergedTranslations :
                mergedTranslations'[g] = mergedTranslations[g]
          /\ \A g \in DOMAIN lingua.translations \ DOMAIN mergedTranslations :
                mergedTranslations'[g] = lingua.translations[g]
          /\ loadedGroups' = loadedGroups
          /\ loadingGroups' = loadingGroups
          /\ pendingRequestsRef' = pendingRequestsRef]_vars

\* group a was loaded lazily; new page props under the same locale then
\* brought their own table of a: the lazily loaded one is still there
C40_Witness ==
    /\ epoch = 0 /\ visits = 1
    /\ "lingua" \notin stale
    /\ lingua = [locale |-> "en", translations |-> PropsTable("en", {"a"})]
    /\ DOMAIN mergedTranslations = {"a"}
    /\ mergedTranslations["a"] = FetchedEntry("en")

====
